---- MODULE Spec2Model ----
(***************************************************************************)
(* Retrieval-and-grounding decision engine of eks-chat (app/main.py):     *)
(* the /chat and /chat/stream handlers, the strict-mode gate, the judge,   *)
(* the lexical-overlap safety net and the streaming event loop.            *)
(*                                                                         *)
(* Text is modelled as a sequence of one-character strings, so that        *)
(* lower(), strip(), slicing and the [a-z0-9]+ tokenizer are computed as   *)
(* the code computes them.                                                 *)
(***************************************************************************)
EXTENDS Integers, Sequences, FiniteSets, TLC

----------------------------------------------------------------------------
(* Bounds of the model *)

\* Longest provider stream (number of provider events) the model explores.
MaxProviderEvents == 2

----------------------------------------------------------------------------
(* Characters and Python string primitives *)

LowerChars ==
  <<"a","b","c","d","e","f","g","h","i","j","k","l","m","n","o","p","q","r","s","t","u","v","w","x","y","z">>

UpperChars ==
  <<"A","B","C","D","E","F","G","H","I","J","K","L","M","N","O","P","Q","R","S","T","U","V","W","X","Y","Z">>

DigitChars ==
  <<"0","1","2","3","4","5","6","7","8","9">>

Whitespace == {" ", "\n", "\t"}

Range(f) == {f[i] : i \in DOMAIN f}

\* str.lower() on one character
LowerChar(c) ==
  IF c \in Range(UpperChars)
    THEN LowerChars[CHOOSE i \in DOMAIN UpperChars : UpperChars[i] = c]
    ELSE c

\* str.lower()
Lower(s) == [i \in DOMAIN s |-> LowerChar(s[i])]

\* membership in the regex class [a-z0-9]
IsAlnum(c) == c \in Range(LowerChars) \cup Range(DigitChars)

RECURSIVE LStrip(_)
LStrip(s) ==
  IF s = <<>> THEN <<>>
  ELSE IF Head(s) \in Whitespace THEN LStrip(Tail(s)) ELSE s

RECURSIVE RStrip(_)
RStrip(s) ==
  IF s = <<>> THEN <<>>
  ELSE IF s[Len(s)] \in Whitespace THEN RStrip(SubSeq(s, 1, Len(s) - 1)) ELSE s

\* str.strip()
Strip(s) == RStrip(LStrip(s))

\* s[:n] for n >= 0
Prefix(s, n) == SubSeq(s, 1, IF n < Len(s) THEN n ELSE Len(s))

\* Python's xs[:k] for any integer k (a negative k counts from the end)
SliceTo(xs, k) ==
  IF k >= 0 THEN Prefix(xs, k)
  ELSE SubSeq(xs, 1, IF Len(xs) + k > 0 THEN Len(xs) + k ELSE 0)

RECURSIVE Join(_, _)
\* sep.join(parts)
Join(sep, parts) ==
  IF parts = <<>> THEN <<>>
  ELSE IF Len(parts) = 1 THEN parts[1]
  ELSE parts[1] \o sep \o Join(sep, Tail(parts))

\* [c] * n
Repeat(c, n) == [i \in 1..n |-> c]

\* Optional values: None is the empty tuple, Some(x) a one-element tuple
None == <<>>
Some(x) == <<x>>

----------------------------------------------------------------------------
(* Lexical-overlap safety net *)

_STOP ==
  {<<"t","h","e">>, <<"a">>, <<"a","n">>, <<"a","n","d">>, <<"o","r">>, <<"o","f">>,
   <<"t","o">>, <<"f","o","r">>, <<"i","n">>, <<"o","n">>, <<"w","i","t","h">>,
   <<"b","y">>, <<"a","t">>, <<"f","r","o","m">>, <<"i","s">>, <<"a","r","e">>,
   <<"b","e">>, <<"a","s">>, <<"t","h","a","t">>, <<"t","h","i","s">>, <<"i","t">>,
   <<"i","t","s">>, <<"a","b","o","u","t">>, <<"p","l","e","a","s","e">>,
   <<"l","i","s","t">>, <<"s","h","o","w">>}

\* Shortest token kept: len(w) > 2 in the code
MinTokenLen == 3

\* re.findall(r"[a-z0-9]+", s): the maximal alphanumeric runs of s, as a set
AlnumRuns(s) ==
  LET starts == {i \in DOMAIN s : IsAlnum(s[i]) /\ (i = 1 \/ ~IsAlnum(s[i - 1]))}
      EndOf(i) == CHOOSE j \in i..Len(s) :
                    /\ (j = Len(s) \/ ~IsAlnum(s[j + 1]))
                    /\ \A m \in i..j : IsAlnum(s[m])
  IN  {SubSeq(s, i, EndOf(i)) : i \in starts}

\* set(_normalize_tokens(s))
_normalize_tokens(s) ==
  {w \in AlnumRuns(Lower(s)) : w \notin _STOP /\ Len(w) >= MinTokenLen}

\* Refusal threshold 0.15 = OverlapNum / OverlapDen
OverlapNum == 15
OverlapDen == 100

\* The two integers whose quotient _keyword_overlap_score returns
OverlapHits(question, texts) ==
  LET q == _normalize_tokens(question)
      t == UNION {_normalize_tokens(texts[i]) : i \in DOMAIN texts}
  IN  IF q = {} THEN 0 ELSE Cardinality(q \cap t)

OverlapTotal(question) ==
  LET n == Cardinality(_normalize_tokens(question)) IN IF n > 1 THEN n ELSE 1

\* _keyword_overlap_score(question, texts) < 0.15
_keyword_overlap_score_below(question, texts) ==
  OverlapDen * OverlapHits(question, texts) < OverlapNum * OverlapTotal(question)

----------------------------------------------------------------------------
(* Query expansion *)

TrigPa == <<"p","a">>
TrigPriorAuth == <<"p","r","i","o","r"," ","a","u","t","h">>
TrigAuthorization == <<"a","u","t","h","o","r","i","z","a","t","i","o","n">>
TrigCgm == <<"c","g","m">>
TrigAppeal == <<"a","p","p","e","a","l">>
TrigGriev == <<"g","r","i","e","v">>
TrigGlp == <<"g","l","p">>
TrigWeight == <<"w","e","i","g","h","t">>
TrigSemag == <<"s","e","m","a","g">>
ExtraAuth ==
  {<<"p","r","i","o","r"," ","a","u","t","h","o","r","i","z","a","t","i","o","n">>,
   <<"p","r","e","a","u","t","h","o","r","i","z","a","t","i","o","n">>,
   <<"r","e","-","a","u","t","h","o","r","i","z","a","t","i","o","n">>,
   <<"r","e","n","e","w","a","l">>}
ExtraCgm ==
  {<<"c","o","n","t","i","n","u","o","u","s"," ","g","l","u","c","o","s","e"," ","m","o","n","i","t","o","r">>,
   <<"c","o","n","t","i","n","u","o","u","s"," ","g","l","u","c","o","s","e"," ","m","o","n","i","t","o","r","i","n","g">>}
ExtraAppeal ==
  {<<"a","p","p","e","a","l","s">>,
   <<"g","r","i","e","v","a","n","c","e">>}
ExtraGlp ==
  {<<"G","L","P","-","1">>,
   <<"w","e","i","g","h","t"," ","m","a","n","a","g","e","m","e","n","t">>,
   <<"s","e","m","a","g","l","u","t","i","d","e">>,
   <<"l","i","r","a","g","l","u","t","i","d","e">>}

\* `sub in s`
Contains(s, sub) ==
  \E i \in 1..(Len(s) - Len(sub) + 1) : SubSeq(s, i, i + Len(sub) - 1) = sub

\* characters of the synonyms in code-point order
CodePointOrder == <<" ", "-">> \o DigitChars \o UpperChars \o LowerChars

Ord(c) == CHOOSE i \in DOMAIN CodePointOrder : CodePointOrder[i] = c

\* a < b for Python strings
StrLess(a, b) ==
  \E i \in 1..(Len(a) + 1) :
    /\ i <= Len(b)
    /\ \A j \in 1..(i - 1) : a[j] = b[j]
    /\ (i = Len(a) + 1 \/ Ord(a[i]) < Ord(b[i]))

RECURSIVE Sorted(_)
\* sorted(S) for a set of strings
Sorted(S) ==
  IF S = {} THEN <<>>
  ELSE LET m == CHOOSE x \in S : \A y \in S \ {x} : StrLess(x, y)
       IN  <<m>> \o Sorted(S \ {m})

\* set(extra)
ExtraTerms(q) ==
  LET ql == Lower(q)
  IN  (IF Contains(ql, TrigPa) \/ Contains(ql, TrigPriorAuth) \/ Contains(ql, TrigAuthorization)
         THEN ExtraAuth ELSE {})
        \cup (IF Contains(ql, TrigCgm) THEN ExtraCgm ELSE {})
        \cup (IF Contains(ql, TrigAppeal) \/ Contains(ql, TrigGriev) THEN ExtraAppeal ELSE {})
        \cup (IF Contains(ql, TrigGlp) \/ Contains(ql, TrigWeight) \/ Contains(ql, TrigSemag)
                THEN ExtraGlp ELSE {})

\* Mutation of _expand_query_for_med: no early return when nothing matched
_expand_query_for_med_AlwaysAppends(q) ==
  q \o <<" ">> \o Join(<<" ">>, Sorted(ExtraTerms(q)))

_expand_query_for_med(q) ==
  IF ExtraTerms(q) = {} THEN q
  ELSE q \o <<" ">> \o Join(<<" ">>, Sorted(ExtraTerms(q)))

----------------------------------------------------------------------------
(* Literals of the program *)

\* "Not in policy."
NotInPolicy == <<"N","o","t"," ","i","n"," ","p","o","l","i","c","y",".">>

\* len of a SourceRecord preview: (d.page_content or "")[:240]
PreviewLen == 240

\* k used when the request's k is falsy: req.k or 6
DefaultK == 6

\* Values forced in strict mode, in hundredths: temperature 0.0, topP 0.1
StrictTemperature == 0
StrictTopP == 10

----------------------------------------------------------------------------
(* Inputs: documents the retriever may return, requests a caller may send *)

TxtCgmDoc == <<"C","G","M"," ","d","e","v","i","c","e","s"," ","a","r","e"," ","c","o","v","e","r","e","d",".">>
TxtAppealDoc == <<"A","p","p","e","a","l","s"," ","w","i","t","h","i","n"," ","6","0"," ","d","a","y","s","\n">>
\* 238 characters of filler, then "coverage cgm": the preview cuts it to "co"
TxtLongDoc == Repeat("z", 237) \o <<" ","c","o","v","e","r","a","g","e"," ","c","g","m">>

DocCgm ==
  [page_content |-> TxtCgmDoc,
   metadata |-> [source |-> <<"c","g","m",".","m","d">>,
                 section |-> <<"C","o","v","e","r","a","g","e">>]]
DocAppeal ==
  [page_content |-> TxtAppealDoc,
   metadata |-> [source |-> <<"a",".","m","d">>]]
DocLong ==
  [page_content |-> TxtLongDoc,
   metadata |-> [title |-> <<>>]]

\* Ranked results of the vector search (the retriever is built with k = 3)
RankedResults ==
  {<<>>, <<DocCgm>>, <<DocAppeal>>, <<DocLong>>, <<DocAppeal, DocCgm>>,
   <<DocCgm, DocAppeal, DocLong>>}

\* What get_retriever(...).get_relevant_documents(...) may do
RetrievalOutcomes ==
  {[kind |-> "ok", docs |-> r] : r \in RankedResults}
    \cup {[kind |-> "build_failed", docs |-> <<>>],
          [kind |-> "retriever_error", docs |-> <<>>]}

QCgm == <<"C","G","M"," ","c","o","v","e","r","a","g","e","?">>
QStop == <<"i","s"," ","i","t"," ","o","n"," ","t","h","e"," ","l","i","s","t">>
\* seven meaningful tokens, one of which ("cgm") occurs in DocCgm: 1/7 < 0.15
QSeven == <<"c","g","m"," ","p","u","m","p"," ","d","o","s","e"," ","r","e","f","i","l","l"," ","l","i","m","i","t"," ","v","i","s","i","t"," ","c","l","a","i","m">>
TxtBlank == <<" ">>
TxtBrief == <<"b","e"," ","b","r","i","e","f">>
TxtHi == <<"h","i">>

Turn(r, c) == [role |-> r, content |-> c]

MessageLists ==
  {<<>>,
   <<Turn("user", TxtBlank)>>,
   <<Turn("user", QCgm)>>,
   <<Turn("user", QStop)>>,
   <<Turn("system", TxtBrief), Turn("user", QSeven)>>,
   <<Turn("user", QCgm), Turn("assistant", TxtHi), Turn("user", <<>>)>>,
   <<Turn("user", QCgm), Turn("tool", TxtHi), Turn("user", TxtBlank)>>}

\* (temperature, top_p, k) as sent by a caller; sampling values in hundredths
SamplingProfiles ==
  {[temperature |-> 40, top_p |-> 90, k |-> 3],
   [temperature |-> 100, top_p |-> 50, k |-> 1],
   [temperature |-> 0, top_p |-> 10, k |-> 0]}

\* ChatRequest
Requests ==
  {[messages |-> m, rag |-> r, strict |-> s, temperature |-> p.temperature,
    top_p |-> p.top_p, k |-> p.k, max_tokens |-> 512] :
      m \in MessageLists, r \in BOOLEAN, s \in BOOLEAN, p \in SamplingProfiles}

\* ChatRequest with only its defaults
DefaultRequest ==
  [messages |-> <<>>, rag |-> FALSE, strict |-> FALSE, temperature |-> 40,
   top_p |-> 90, k |-> 3, max_tokens |-> 512]

Endpoints == {"chat", "stream"}

\* Replies of the judge model call: the call raises; the text is not JSON; it
\* is JSON but no object (data.get raises); an object whose "supported" is
\* true, is false, or is anything else
JudgeOutcomes ==
  {"call_failed", "not_json", "not_object", "supported_true", "supported_false",
   "supported_other"}

\* Texts the generation model may produce
TxtCited == <<"o","k"," ","[","1","]">>
TxtUncited == <<"o","k">>
Answers == {TxtCited, TxtUncited, <<>>}

\* What llm.invoke / bedrock.converse may do
GenerationOutcomes ==
  {[kind |-> "ok", text |-> a] : a \in Answers} \cup {[kind |-> "error", text |-> <<>>]}

\* What converse_stream may do
StreamOpenOutcomes == {"stream", "no_stream", "raises"}

Faults ==
  {"internalServerException", "throttlingException", "validationException",
   "modelStreamErrorException"}

\* Events the provider stream may deliver
ProviderEvents ==
  {[key |-> "contentBlockDelta", text |-> TxtCited],
   [key |-> "contentBlockDelta", text |-> <<>>],
   [key |-> "messageStop", text |-> <<>>],
   [key |-> "metadata", text |-> <<>>]}
    \cup {[key |-> f, text |-> <<>>] : f \in Faults}

----------------------------------------------------------------------------
(* State *)

VARIABLES
  USE_LANGCHAIN,  \* module configuration: which /chat variant is registered
  endpoint,       \* route of the request in progress
  req,            \* the ChatRequest in progress
  pc,             \* position of the handler / generator
  user_last,      \* content of the last user turn ("" when none)
  docs,           \* retrieved documents after [:k]
  context_text,   \* context string built from docs
  sources,        \* SourceRecords built from docs
  supported,      \* local variable `supported`
  emit_sources,   \* local variable `emit_sources`
  retrCalls,      \* retriever queries made for this request
  judgeCalls,     \* calls of _judge_supported made for this request
  genCalls,       \* invocations of the generation capability for this request
  response,       \* HTTP response of the handler
  events,         \* SSE events yielded so far
  generated,      \* texts the generation capability has produced for this request
  provider        \* provider stream events consumed by the generator

\* POST /rag/reindex (app/main.py)
VARIABLES
  RAG_TOKEN,      \* module configuration: the shared secret ("" when unset)
  RAG_S3_BUCKET,  \* module configuration: the default bucket ("" when unset)
  areq,           \* the reindex request in progress
  apc,            \* position of rag_reindex
  aresp,          \* HTTP response of rag_reindex
  rebuilds        \* buckets rebuild_from_s3 was called with

\* the index cache of app/rag.py and the threads calling into it
VARIABLES
  lock,               \* holder of _lock, or NoThread
  _cached_retriever,  \* module global: None or the cached retriever
  _cached_vs,         \* module global: None or the cached vector store
  store,              \* generation of STORE_DIR/index.faiss (0: no file)
  nbuilds,            \* index builds that wrote the store so far
  tpc,                \* per thread: position in get_retriever / reindex
  tret,               \* per thread: what its last call returned
  published,          \* retrievers that have been the cached retriever
  grBuilds            \* builds that get_retriever calls have completed

\* one call of a helper of app/main.py on its own: arguments and results
VARIABLES
  arg_q,               \* q given to _expand_query_for_med
  ret_expand,          \* what napply nested applications of it returned
  napply,              \* how often it has been applied
  arg_question,        \* question given to _judge_supported
  arg_context_blocks,  \* context_blocks given to _judge_supported
  reply,               \* what the judge model call did, "none" before the call
  ret_judge            \* None, or the verdict _judge_supported returned

chatVars ==
  <<USE_LANGCHAIN, endpoint, req, pc, user_last, docs, context_text, sources,
    supported, emit_sources, retrCalls, judgeCalls, genCalls, response, events,
    generated, provider>>

adminVars == <<RAG_TOKEN, RAG_S3_BUCKET, areq, apc, aresp, rebuilds>>

ragVars ==
  <<lock, _cached_retriever, _cached_vs, store, nbuilds, tpc, tret, published, grBuilds>>

\* what the /chat and /chat/stream handlers leave alone
fnVars ==
  <<arg_q, ret_expand, napply, arg_question, arg_context_blocks, reply, ret_judge>>

otherVars == <<adminVars, ragVars, fnVars>>

vars == <<chatVars, otherVars>>

\* rag_reindex called with no query parameter and no header
DefaultReindex == [bucket |-> None, prefix |-> None, x_rag_token |-> None, authorization |-> None]

NoAdminResponse == [status |-> 0, error |-> "", message |-> ""]

\* no /rag/reindex request in progress
AdminIdle ==
  /\ areq = DefaultReindex
  /\ apc = "idle"
  /\ aresp = NoAdminResponse
  /\ rebuilds = <<>>

NoResponse == [kind |-> "none", status |-> 0, error |-> "", answer |-> <<>>, sources |-> None]
JsonResponse(ans, srcs) ==
  [kind |-> "json", status |-> 200, error |-> "", answer |-> ans, sources |-> srcs]
HttpError(code, err) ==
  [kind |-> "http_error", status |-> code, error |-> err, answer |-> <<>>, sources |-> None]
StreamingResponse ==
  [kind |-> "stream", status |-> 200, error |-> "", answer |-> <<>>, sources |-> None]

\* _sse payloads
EvSources(srcs) == [type |-> "sources", text |-> <<>>, kind |-> "", sources |-> srcs]
EvDelta(t) == [type |-> "delta", text |-> t, kind |-> "", sources |-> <<>>]
EvDone == [type |-> "done", text |-> <<>>, kind |-> "", sources |-> <<>>]
EvError(k) == [type |-> "error", text |-> <<>>, kind |-> k, sources |-> <<>>]

----------------------------------------------------------------------------
(* Pure helpers of app/main.py *)

\* a.get(k1) or a.get(k2) or ... or default
FirstTruthy(meta, keys, default) ==
  IF \E i \in DOMAIN keys : keys[i] \in DOMAIN meta /\ meta[keys[i]] # <<>>
    THEN meta[keys[CHOOSE i \in DOMAIN keys :
                /\ keys[i] \in DOMAIN meta /\ meta[keys[i]] # <<>>
                /\ \A j \in 1..(i - 1) : ~(keys[j] \in DOMAIN meta /\ meta[keys[j]] # <<>>)]]
    ELSE default

TxtUnknown == <<"u","n","k","n","o","w","n">>
TxtDocument == <<"D","o","c","u","m","e","n","t">>
TxtSection == <<"S","e","c","t","i","o","n"," ">>

_build_sources(ds) ==
  [i \in DOMAIN ds |->
     [source |-> IF "source" \in DOMAIN ds[i].metadata
                   THEN ds[i].metadata["source"] ELSE TxtUnknown,
      section |-> FirstTruthy(ds[i].metadata, <<"section", "title", "heading">>, TxtDocument),
      preview |-> Prefix(ds[i].page_content, PreviewLen)]]

\* Mutation of ContextPart: the block _format_context_blocks would make
ContextPart_Numbered(d, i) ==
  <<"[", DigitChars[i + 1], "]", " ">> \o d.page_content

\* the `parts` joined by _collect_docs_and_context
ContextPart(d, i) ==
  <<"[">> \o FirstTruthy(d.metadata, <<"section", "title", "heading", "source">>,
                         TxtSection \o <<DigitChars[i + 1]>>)
          \o <<"]", "\n">> \o Strip(d.page_content)

\* _collect_docs_and_context: the (docs, context) pair for a retrieval outcome
\* Mutation of _collect_docs_and_context: retriever failures are not caught
_collect_docs_and_context_NoCatch(outcome, k) ==
  LET ds == IF outcome.kind = "ok" THEN SliceTo(outcome.docs, k) ELSE <<>>
  IN  IF ds = <<>>
        THEN [raised |-> outcome.kind # "ok", docs |-> <<>>, context |-> <<>>]
        ELSE [raised |-> FALSE, docs |-> ds,
              context |-> Join(<<"\n", "\n">>, [i \in DOMAIN ds |-> ContextPart(ds[i], i)])]

\* `raised` tells whether an exception leaves the function (`except Exception`
\* turns every failure of get_retriever / get_relevant_documents into docs = [])
_collect_docs_and_context(outcome, k) ==
  LET ds == IF outcome.kind = "ok" THEN SliceTo(outcome.docs, k) ELSE <<>>
  IN  IF ds = <<>>
        THEN [raised |-> FALSE, docs |-> <<>>, context |-> <<>>]
        ELSE [raised |-> FALSE, docs |-> ds,
              context |-> Join(<<"\n", "\n">>, [i \in DOMAIN ds |-> ContextPart(ds[i], i)])]

\* whether _judge_supported reaches the model call
JudgeCallsModel(context_blocks) == Strip(context_blocks) # <<>>

\* Mutation of _judge_supported: no early return on an empty context
_judge_supported_NoEmptyCheck(context_blocks, outcome) ==
  outcome \in {"supported_true", "not_json", "not_object", "call_failed"}

\* Mutation of _judge_supported: a failed judge counts as unsupported
_judge_supported_FailClosed(context_blocks, outcome) ==
  JudgeCallsModel(context_blocks) /\ outcome = "supported_true"

\* _judge_supported: the verdict for a given reply of the judge model
_judge_supported(context_blocks, outcome) ==
  IF ~JudgeCallsModel(context_blocks) THEN FALSE
  ELSE CASE outcome = "supported_true" -> TRUE
         [] outcome = "supported_false" -> FALSE
         [] outcome = "supported_other" -> FALSE
         [] outcome = "not_json" -> TRUE
         [] outcome = "not_object" -> TRUE
         [] outcome = "call_failed" -> TRUE

JudgeRecord(context_blocks, outcome) ==
  [model_called |-> JudgeCallsModel(context_blocks),
   verdict |-> _judge_supported(context_blocks, outcome)]

Previews(srcs) == [i \in DOMAIN srcs |-> srcs[i].preview]

\* Mutation of StrictRefuses: refuses only when no question token matches
StrictRefuses_ZeroOverlapOnly(verdict, question, srcs) ==
  ~verdict /\ OverlapHits(question, Previews(srcs)) = 0

\* Mutation of StrictRefuses: the overlap safety net is not consulted
StrictRefuses_IgnoresOverlap(verdict, question, srcs) == ~verdict

\* strict short-circuit test of chat and chat_stream
StrictRefuses(verdict, question, srcs) ==
  ~verdict /\ _keyword_overlap_score_below(question, Previews(srcs))

\* _require_valid_turns passes
ValidTurns_NoStrip(turns) ==
  /\ turns # <<>>
  /\ \E i \in DOMAIN turns : turns[i].role = "user" /\ turns[i].content # <<>>
ValidTurns(turns) ==
  /\ turns # <<>>
  /\ \E i \in DOMAIN turns : turns[i].role = "user" /\ Strip(turns[i].content) # <<>>

\* next((m.content for m in reversed(messages) if m.role == "user"), "")
LastUser(turns) ==
  IF \E i \in DOMAIN turns : turns[i].role = "user"
    THEN turns[CHOOSE i \in DOMAIN turns :
                 /\ turns[i].role = "user"
                 /\ \A j \in (i + 1)..Len(turns) : turns[j].role # "user"].content
    ELSE <<>>

\* req.k or 6
EffectiveK(r) == IF r.k = 0 THEN DefaultK ELSE r.k

\* the system prompt: STRICT_TMPL / NONSTRICT_TMPL with the context substituted
SysText(r, ctx) ==
  [tmpl |-> IF r.strict THEN "STRICT_TMPL" ELSE "NONSTRICT_TMPL", text |-> ctx]
Plain(t) == [tmpl |-> "", text |-> t]

\* inferenceConfig of bedrock.converse / converse_stream
InferenceConfig(r) ==
  [maxTokens |-> r.max_tokens,
   temperature |-> IF r.strict THEN StrictTemperature ELSE r.temperature,
   topP |-> IF r.strict THEN StrictTopP ELSE r.top_p]

\* ChatBedrockConverse(model=MODEL_ID, region_name=AWS_REGION): no sampling
\* parameter is passed, so the invocation carries none
LangChainConfig(r) == [model |-> "MODEL_ID"]

\* lc_msgs of the LangChain /chat
LangChainMessages(r, ctx) ==
  LET known(t) == t.role \in {"user", "assistant", "system"}
      kept == SelectSeq(r.messages, known)
      conv == [i \in DOMAIN kept |-> [role |-> kept[i].role, content |-> Plain(kept[i].content)]]
  IN  (IF ctx # <<>> THEN <<[role |-> "system", content |-> SysText(r, ctx)]>> ELSE <<>>)
        \o conv

\* messages of the raw-SDK /chat
RawMessages(r, ctx, last) ==
  (IF ctx # <<>> THEN <<[role |-> "system", content |-> SysText(r, ctx)]>> ELSE <<>>)
    \o <<[role |-> "user", content |-> Plain(last)]>>

----------------------------------------------------------------------------
(* Handlers *)

Threads == {"t1", "t2", "t3"}
NoThread == "none"

\* what a thread's last call into app.rag gave back
NoReturn == [kind |-> "none", retriever |-> None]

\* a freshly imported app.rag with no caller: nothing cached; index.faiss of
\* generation s (0: absent) is what an earlier process left in STORE_DIR
RagIdle(s) ==
  /\ lock = NoThread
  /\ _cached_retriever = None
  /\ _cached_vs = None
  /\ store = s
  /\ nbuilds = s
  /\ tpc = [t \in Threads |-> "idle"]
  /\ tret = [t \in Threads |-> NoReturn]
  /\ published = {}
  /\ grBuilds = 0

\* no helper under test
FnIdle ==
  /\ arg_q = <<>>
  /\ ret_expand = <<>>
  /\ napply = 0
  /\ arg_question = <<>>
  /\ arg_context_blocks = <<>>
  /\ reply = "none"
  /\ ret_judge = None

\* no /chat or /chat/stream request in progress
ChatIdle ==
  /\ endpoint = "chat"
  /\ req = DefaultRequest
  /\ pc = "idle"
  /\ user_last = <<>>
  /\ docs = <<>>
  /\ context_text = <<>>
  /\ sources = <<>>
  /\ supported = TRUE
  /\ emit_sources = FALSE
  /\ retrCalls = <<>>
  /\ judgeCalls = <<>>
  /\ genCalls = <<>>
  /\ response = NoResponse
  /\ events = <<>>
  /\ generated = <<>>
  /\ provider = <<>>

Init ==
  /\ USE_LANGCHAIN \in BOOLEAN
  /\ ChatIdle
  /\ RAG_TOKEN = <<>>
  /\ RAG_S3_BUCKET = <<>>
  /\ AdminIdle
  /\ RagIdle(0)
  /\ FnIdle

\* a request arrives at POST /chat or POST /chat/stream
Receive(r, e) ==
  /\ UNCHANGED otherVars
  /\ pc = "idle"
  /\ req' = r
  /\ endpoint' = e
  /\ pc' = "received"
  /\ UNCHANGED <<USE_LANGCHAIN, user_last, docs, context_text, sources, supported,
                 emit_sources, retrCalls, judgeCalls, genCalls, response, events,
                 generated, provider>>

\* the response has been delivered: the request's locals are dropped and the
\* worker is free for the next request
Complete ==
  /\ UNCHANGED otherVars
  /\ pc = "done"
  /\ pc' = "idle"
  /\ user_last' = <<>>
  /\ docs' = <<>>
  /\ context_text' = <<>>
  /\ sources' = <<>>
  /\ supported' = TRUE
  /\ emit_sources' = FALSE
  /\ retrCalls' = <<>>
  /\ judgeCalls' = <<>>
  /\ genCalls' = <<>>
  /\ response' = NoResponse
  /\ events' = <<>>
  /\ generated' = <<>>
  /\ provider' = <<>>
  /\ UNCHANGED <<USE_LANGCHAIN, endpoint, req>>

\* _require_valid_turns(req.messages) and the computation of user_last
RequireValidTurns ==
  /\ UNCHANGED otherVars
  /\ pc = "received"
  /\ IF ValidTurns(req.messages)
       THEN /\ user_last' = LastUser(req.messages)
            /\ pc' = "gate"
            /\ UNCHANGED response
       ELSE /\ response' = HttpError(400, "BadRequest")
            /\ pc' = "done"
            /\ UNCHANGED user_last
  /\ UNCHANGED <<USE_LANGCHAIN, endpoint, req, docs, context_text, sources, supported,
                 emit_sources, retrCalls, judgeCalls, genCalls, events, generated, provider>>

\* where the handler continues once the gate lets the request through
AfterGate == IF endpoint = "chat" THEN "generate" ELSE "gen"

\* `if req.rag and user_last:`
RagEntered == req.rag /\ user_last # <<>>

\* Mutation of GenRejudges: the generator's gate forgets the rag flag
GenRejudges_IgnoresRag == req.strict

\* `if req.rag and req.strict:` inside gen()
GenRejudges == req.rag /\ req.strict

\* the RAG block is skipped
SkipRetrieval ==
  /\ UNCHANGED otherVars
  /\ pc = "gate"
  /\ ~RagEntered
  /\ pc' = AfterGate
  /\ IF endpoint = "stream" THEN response' = StreamingResponse ELSE UNCHANGED response
  /\ UNCHANGED <<USE_LANGCHAIN, endpoint, req, user_last, docs, context_text, sources,
                 supported, emit_sources, retrCalls, judgeCalls, genCalls, events, generated, provider>>

\* docs, context_text = _collect_docs_and_context(...); sources = _build_sources(docs)
CollectDocs(o) ==
  /\ UNCHANGED otherVars
  /\ pc = "gate"
  /\ RagEntered
  /\ retrCalls' = Append(retrCalls,
       [outcome |-> o.kind, query |-> _expand_query_for_med(user_last)])
  /\ LET c == _collect_docs_and_context(o, EffectiveK(req))
     IN  IF c.raised
           THEN /\ response' = HttpError(500, "Internal Server Error")
                /\ pc' = "done"
                /\ UNCHANGED <<docs, context_text, sources>>
           ELSE /\ docs' = c.docs
                /\ context_text' = c.context
                /\ sources' = _build_sources(c.docs)
                /\ pc' = "judge"
                /\ UNCHANGED response
  /\ UNCHANGED <<USE_LANGCHAIN, endpoint, req, user_last, supported, emit_sources,
                 judgeCalls, genCalls, events, generated, provider>>

\* the `if req.strict:` branch of the RAG block
StrictGate(j) ==
  /\ UNCHANGED otherVars
  /\ pc = "judge"
  /\ req.strict
  /\ LET v == _judge_supported(context_text, j)
     IN  /\ supported' = v
         /\ judgeCalls' = Append(judgeCalls, JudgeRecord(context_text, j))
         /\ IF StrictRefuses(v, user_last, sources)
              THEN IF endpoint = "chat"
                     THEN /\ response' = JsonResponse(NotInPolicy, Some(sources))
                          /\ pc' = "done"
                          /\ UNCHANGED emit_sources
                     ELSE /\ response' = StreamingResponse
                          /\ pc' = "bail"
                          /\ emit_sources' = TRUE
              ELSE /\ emit_sources' = TRUE
                   /\ pc' = AfterGate
                   /\ IF endpoint = "stream" THEN response' = StreamingResponse
                                             ELSE UNCHANGED response
  /\ UNCHANGED <<USE_LANGCHAIN, endpoint, req, user_last, docs, context_text, sources,
                 retrCalls, genCalls, events, generated, provider>>

\* the `else:` branch: supported = bool(context_text) and _judge_supported(...)
NonStrictGate(j) ==
  /\ UNCHANGED otherVars
  /\ pc = "judge"
  /\ ~req.strict
  /\ IF context_text # <<>>
       THEN /\ supported' = _judge_supported(context_text, j)
            /\ judgeCalls' = Append(judgeCalls, JudgeRecord(context_text, j))
       ELSE /\ supported' = FALSE
            /\ UNCHANGED judgeCalls
  /\ emit_sources' = supported'
  /\ pc' = AfterGate
  /\ IF endpoint = "stream" THEN response' = StreamingResponse ELSE UNCHANGED response
  /\ UNCHANGED <<USE_LANGCHAIN, endpoint, req, user_last, docs, context_text, sources,
                 retrCalls, genCalls, events, generated, provider>>

\* Mutation of ChatResult: an answer without "[" is replaced by the refusal
\* when strict mode had context
ChatResult_CitationOverride(g) ==
  IF g.kind = "ok"
    THEN JsonResponse(IF req.strict /\ context_text # <<>> /\ "[" \notin Range(g.text)
                        THEN NotInPolicy ELSE g.text,
                      IF emit_sources THEN Some(sources) ELSE None)
    ELSE HttpError(502, "Upstream")

\* what /chat returns for an outcome of the generation call
ChatResult(g) ==
  IF g.kind = "ok"
    THEN JsonResponse(g.text, IF emit_sources THEN Some(sources) ELSE None)
    ELSE HttpError(502, "Upstream")

\* /chat, LangChain variant: llm.invoke(lc_msgs)
ChatLangChain(g) ==
  /\ UNCHANGED otherVars
  /\ pc = "generate"
  /\ USE_LANGCHAIN
  /\ genCalls' = Append(genCalls,
       [api |-> "llm.invoke", config |-> LangChainConfig(req), system |-> None,
        messages |-> LangChainMessages(req, context_text)])
  /\ generated' = IF g.kind = "ok" THEN <<g.text>> ELSE <<>>
  /\ response' = ChatResult(g)
  /\ pc' = "done"
  /\ UNCHANGED <<USE_LANGCHAIN, endpoint, req, user_last, docs, context_text, sources,
                 supported, emit_sources, retrCalls, judgeCalls, events, provider>>

\* /chat, raw-SDK variant: bedrock.converse(...)
ChatRawSdk(g) ==
  /\ UNCHANGED otherVars
  /\ pc = "generate"
  /\ ~USE_LANGCHAIN
  /\ genCalls' = Append(genCalls,
       [api |-> "converse", config |-> InferenceConfig(req), system |-> None,
        messages |-> RawMessages(req, context_text, user_last)])
  /\ generated' = IF g.kind = "ok" THEN <<g.text>> ELSE <<>>
  /\ response' = ChatResult(g)
  /\ pc' = "done"
  /\ UNCHANGED <<USE_LANGCHAIN, endpoint, req, user_last, docs, context_text, sources,
                 supported, emit_sources, retrCalls, judgeCalls, events, provider>>

----------------------------------------------------------------------------
(* Streaming generators of /chat/stream *)

\* `if emit_sources and sources: yield _sse({"sources": sources})`
\* Mutation of SourcesPrelude: sources are shown whatever the gate decided
SourcesPrelude_IgnoresVerdict == IF sources # <<>> THEN <<EvSources(sources)>> ELSE <<>>

SourcesPrelude == IF emit_sources /\ sources # <<>> THEN <<EvSources(sources)>> ELSE <<>>

\* Mutation of RefusalEvents: the refusal yields the sources itself
RefusalEvents_WithSources == <<EvSources(sources), EvDelta(NotInPolicy), EvDone>>

\* the two yields of a refusal
RefusalEvents == <<EvDelta(NotInPolicy), EvDone>>

\* gen_bail(): the early-bail generator, run to its end
GenBail ==
  /\ UNCHANGED otherVars
  /\ pc = "bail"
  /\ events' = events \o SourcesPrelude \o RefusalEvents
  /\ pc' = "done"
  /\ UNCHANGED <<USE_LANGCHAIN, endpoint, req, user_last, docs, context_text, sources,
                 supported, emit_sources, retrCalls, judgeCalls, genCalls, response,
                 generated, provider>>

\* gen(): up to the strict gate
GenStart ==
  /\ UNCHANGED otherVars
  /\ pc = "gen"
  /\ events' = events \o SourcesPrelude
  /\ pc' = IF GenRejudges THEN "gen_judge" ELSE "gen_invoke"
  /\ UNCHANGED <<USE_LANGCHAIN, endpoint, req, user_last, docs, context_text, sources,
                 supported, emit_sources, retrCalls, judgeCalls, genCalls, response,
                 generated, provider>>

\* gen(): `if req.rag and req.strict:` judges again and may short-circuit
GenJudge(j) ==
  /\ UNCHANGED otherVars
  /\ pc = "gen_judge"
  /\ judgeCalls' = Append(judgeCalls, JudgeRecord(context_text, j))
  /\ IF StrictRefuses(_judge_supported(context_text, j), user_last, sources)
       THEN /\ events' = events \o RefusalEvents
            /\ pc' = "done"
       ELSE /\ pc' = "gen_invoke"
            /\ UNCHANGED events
  /\ UNCHANGED <<USE_LANGCHAIN, endpoint, req, user_last, docs, context_text, sources,
                 supported, emit_sources, retrCalls, genCalls, response, generated, provider>>

\* gen(): resp = _bedrock_stream.converse_stream(**kwargs); stream = resp.get("stream")
GenInvoke(o) ==
  /\ UNCHANGED otherVars
  /\ pc = "gen_invoke"
  /\ genCalls' = Append(genCalls,
       [api |-> "converse_stream", config |-> InferenceConfig(req),
        system |-> IF context_text # <<>> THEN Some(SysText(req, context_text)) ELSE None,
        messages |-> <<[role |-> "user", content |-> Plain(user_last)]>>])
  /\ CASE o = "stream" -> pc' = "streaming" /\ UNCHANGED events
       [] o = "no_stream" -> pc' = "done" /\ events' = Append(events, EvError("NoStream"))
       [] o = "raises" -> pc' = "done" /\ events' = Append(events, EvError("ClientError"))
  /\ UNCHANGED <<USE_LANGCHAIN, endpoint, req, user_last, docs, context_text, sources,
                 supported, emit_sources, retrCalls, judgeCalls, response, generated, provider>>

\* the `type` written for a recognized fault event
FaultType(f) ==
  CASE f = "internalServerException" -> "InternalServerException"
    [] f = "throttlingException" -> "ThrottlingException"
    [] f = "validationException" -> "ValidationException"
    [] f = "modelStreamErrorException" -> "ModelStreamErrorException"

\* Mutation of HandleEvent: the fault branches do not break out of the loop
HandleEvent_NoBreak(e) ==
  CASE e.key = "contentBlockDelta" ->
         [yield |-> IF e.text # <<>> THEN <<EvDelta(e.text)>> ELSE <<>>, stop |-> FALSE]
    [] e.key = "messageStop" -> [yield |-> <<EvDone>>, stop |-> FALSE]
    [] e.key \in Faults -> [yield |-> <<EvError(FaultType(e.key))>>, stop |-> FALSE]
    [] OTHER -> [yield |-> <<>>, stop |-> FALSE]

\* body of `for event in stream:`: what is yielded, and whether the loop breaks
HandleEvent(e) ==
  CASE e.key = "contentBlockDelta" ->
         [yield |-> IF e.text # <<>> THEN <<EvDelta(e.text)>> ELSE <<>>, stop |-> FALSE]
    [] e.key = "messageStop" -> [yield |-> <<EvDone>>, stop |-> FALSE]
    [] e.key \in Faults -> [yield |-> <<EvError(FaultType(e.key))>>, stop |-> TRUE]
    [] OTHER -> [yield |-> <<>>, stop |-> FALSE]

\* gen(): one iteration of the loop over the provider stream
StreamDeliver(e) ==
  /\ UNCHANGED otherVars
  /\ pc = "streaming"
  /\ Len(provider) < MaxProviderEvents
  /\ provider' = Append(provider, e)
  /\ events' = events \o HandleEvent(e).yield
  /\ generated' = IF e.key = "contentBlockDelta" THEN Append(generated, e.text)
                                                 ELSE generated
  /\ pc' = IF HandleEvent(e).stop THEN "done" ELSE "streaming"
  /\ UNCHANGED <<USE_LANGCHAIN, endpoint, req, user_last, docs, context_text, sources,
                 supported, emit_sources, retrCalls, judgeCalls, genCalls, response>>

\* gen(): the provider stream is exhausted, the loop and the generator end
StreamExhausted ==
  /\ UNCHANGED otherVars
  /\ pc = "streaming"
  /\ pc' = "done"
  /\ UNCHANGED <<USE_LANGCHAIN, endpoint, req, user_last, docs, context_text, sources,
                 supported, emit_sources, retrCalls, judgeCalls, genCalls, response,
                 events, generated, provider>>

\* gen(): iterating the provider stream raises; `except Exception` yields _err_dict(e)
StreamRaises ==
  /\ UNCHANGED otherVars
  /\ pc = "streaming"
  /\ events' = Append(events, EvError("EventStreamError"))
  /\ pc' = "done"
  /\ UNCHANGED <<USE_LANGCHAIN, endpoint, req, user_last, docs, context_text, sources,
                 supported, emit_sources, retrCalls, judgeCalls, genCalls, response,
                 generated, provider>>

----------------------------------------------------------------------------
(* Specification *)

Next ==
  \/ \E r \in Requests, e \in Endpoints : Receive(r, e)
  \/ RequireValidTurns
  \/ SkipRetrieval
  \/ \E o \in RetrievalOutcomes : CollectDocs(o)
  \/ \E j \in JudgeOutcomes : StrictGate(j)
  \/ \E j \in JudgeOutcomes : NonStrictGate(j)
  \/ \E g \in GenerationOutcomes : ChatLangChain(g)
  \/ \E g \in GenerationOutcomes : ChatRawSdk(g)
  \/ GenBail
  \/ GenStart
  \/ \E j \in JudgeOutcomes : GenJudge(j)
  \/ \E o \in StreamOpenOutcomes : GenInvoke(o)
  \/ \E e \in ProviderEvents : StreamDeliver(e)
  \/ StreamExhausted
  \/ StreamRaises
  \/ Complete

Spec == Init /\ [][Next]_vars

TypeOK ==
  /\ pc \in {"idle", "received", "gate", "judge", "generate", "bail", "gen",
             "gen_judge", "gen_invoke", "streaming", "done"}
  /\ endpoint \in Endpoints
  /\ Len(provider) \in 0..MaxProviderEvents

----------------------------------------------------------------------------
(* Observations used by the properties *)

RECURSIVE Flatten(_)
Flatten(ss) == IF ss = <<>> THEN <<>> ELSE Head(ss) \o Flatten(Tail(ss))

IsDelta(ev) == ev.type = "delta"
IsTerminal(ev) == ev.type \in {"done", "error"}

\* the answer text the caller ends up with
ReturnedAnswer ==
  IF endpoint = "chat" THEN response.answer
  ELSE LET ds == SelectSeq(events, IsDelta) IN Flatten([i \in DOMAIN ds |-> ds[i].text])

\* the request ended in the refusal
Refused ==
  IF endpoint = "chat"
    THEN response = JsonResponse(NotInPolicy, Some(sources))
    ELSE events = SourcesPrelude \o RefusalEvents

\* some call of the judge returned "unsupported"
UnsupportedVerdict == \E i \in DOMAIN judgeCalls : ~judgeCalls[i].verdict

\* the lexical overlap score of the request is below 0.15
OverlapBelow == _keyword_overlap_score_below(user_last, Previews(sources))

RetrievalFailed == retrCalls # <<>> /\ retrCalls[1].outcome # "ok"

----------------------------------------------------------------------------
(* Properties *)

\* C1: with rag = false, whatever strict is and on both endpoints, the
\* retriever is never queried and _judge_supported is never called, at any
\* point of the request.
C1_NoRagNoRetrievalNoJudge ==
  ~req.rag => retrCalls = <<>> /\ judgeCalls = <<>>

\* C1 witness: a strict request without rag has streamed to its end, with a
\* generation call made.
C1_Witness ==
  /\ pc = "done" /\ endpoint = "stream" /\ ~req.rag /\ req.strict
  /\ genCalls # <<>> /\ events # <<>>

\* C2: a strict rag request on /chat with a non-empty last user turn for which
\* retrieval yields no chunk gets exactly {answer: "Not in policy.",
\* sources: []}, and the generation capability is not invoked.
C2_StrictEmptyRetrievalRefuses ==
  (endpoint = "chat" /\ req.strict /\ retrCalls # <<>> /\ docs = <<>>)
    => /\ genCalls = <<>>
       /\ pc \in {"judge", "done"}
       /\ pc = "done" => response = JsonResponse(NotInPolicy, Some(<<>>))

\* C2 witness: the refusal was returned for a question made only of
\* stopwords, after a retrieval that succeeded with zero chunks.
C2_Witness ==
  /\ pc = "done" /\ endpoint = "chat" /\ req.strict
  /\ Len(retrCalls) = 1 /\ retrCalls[1].outcome = "ok"
  /\ docs = <<>> /\ user_last = QStop /\ response.answer = NotInPolicy

\* C3: a strict rag request with at least one chunk, an unsupported verdict
\* and an overlap score below 0.15 ends in the refusal, on both endpoints,
\* and the generation capability is not invoked.
C3_StrictUnsupportedLowOverlapRefuses ==
  (req.strict /\ docs # <<>> /\ UnsupportedVerdict /\ OverlapBelow)
    => /\ genCalls = <<>>
       /\ pc \in {"bail", "done"}
       /\ pc = "done" => Refused /\ ReturnedAnswer = NotInPolicy

\* C3 witness: the streamed refusal for a question with one matching token
\* out of seven (score 1/7, non-zero but under the threshold).
C3_Witness ==
  /\ pc = "done" /\ endpoint = "stream" /\ req.strict /\ docs # <<>>
  /\ UnsupportedVerdict /\ OverlapBelow
  /\ OverlapHits(user_last, Previews(sources)) > 0
  /\ Refused

\* C4: a strict rag request with an unsupported verdict and an overlap score
\* of at least 0.15 is not short-circuited: when it has completed, the
\* generation capability has been invoked (once).
C4_StrictOverlapOverridesRefusal ==
  (req.strict /\ retrCalls # <<>> /\ UnsupportedVerdict /\ ~OverlapBelow)
    => /\ pc # "bail"
       /\ pc = "done" => Len(genCalls) = 1 /\ ~Refused

\* C4 witness: /chat answered from the model although the judge said
\* unsupported, because the overlap score is at least 0.15.
C4_Witness ==
  /\ pc = "done" /\ endpoint = "chat" /\ req.strict /\ UnsupportedVerdict
  /\ ~OverlapBelow /\ Len(genCalls) = 1 /\ response.kind = "json"
  /\ response.answer = TxtCited

C6_SamplingParameters ==
  \A i \in DOMAIN genCalls :
    LET c == genCalls[i].config
    IN  /\ "temperature" \in DOMAIN c /\ "topP" \in DOMAIN c
        /\ IF req.strict
             THEN c["temperature"] = StrictTemperature /\ c["topP"] = StrictTopP
             ELSE c["temperature"] = req.temperature /\ c["topP"] = req.top_p

\* C7: a stream holds at most one sources event, and a sources event is the
\* first event of its stream.
C7_SourcesFirstAndOnce ==
  \A i \in DOMAIN events : events[i].type = "sources" => i = 1

\* C7 witness: a stream that opened with sources and went on with a model delta.
C7_Witness ==
  /\ endpoint = "stream" /\ Len(events) >= 2
  /\ events[1].type = "sources" /\ events[2] = EvDelta(TxtCited)

\* C8: a finished stream holds exactly one terminal event (done or error),
\* and it is the last event.
C8_ExactlyOneTerminalLast ==
  (endpoint = "stream" /\ pc = "done" /\ response.kind = "stream")
    => /\ events # <<>>
       /\ IsTerminal(events[Len(events)])
       /\ \A i \in 1..(Len(events) - 1) : ~IsTerminal(events[i])

\* C9: once the provider stream has delivered a recognized fault event, the
\* generator has stopped: that fault is the last provider event consumed, the
\* last event emitted is the one error event, of the matching kind, and the
\* generation capability has been invoked exactly once.
C9_FaultTerminatesStream ==
  \A i \in DOMAIN provider :
    provider[i].key \in Faults
      => /\ i = Len(provider)
         /\ pc = "done"
         /\ events # <<>>
         /\ events[Len(events)] = EvError(FaultType(provider[i].key))
         /\ Cardinality({n \in DOMAIN events : events[n].type = "error"}) = 1
         /\ Len(genCalls) = 1

\* C9 witness: a throttling fault arrived after a delta.
C9_Witness ==
  /\ pc = "done" /\ Len(provider) = 2
  /\ provider[1].key = "contentBlockDelta" /\ provider[2].key = "throttlingException"
  /\ events[Len(events)] = EvError("ThrottlingException")

\* the invocation carries no context system prompt
NoContextPrompt(call) ==
  /\ call.system = None
  /\ \A i \in DOMAIN call.messages : call.messages[i].content.tmpl = ""

\* C10: a non-strict rag request whose retrieval fails is not aborted: it
\* goes on to generation with an empty context, and what the caller gets is
\* the generated answer (or the generation's own error), never a retrieval
\* error.
C10_NonStrictRetrievalFailureDegrades ==
  (~req.strict /\ RetrievalFailed)
    => /\ context_text = <<>> /\ docs = <<>>
       /\ pc \notin {"bail", "gen_judge"}
       /\ response.status \in {0, 200, 502}
       /\ pc = "done" =>
            /\ Len(genCalls) = 1 /\ NoContextPrompt(genCalls[1])
            /\ (endpoint = "chat" /\ generated # <<>>)
                 => response = JsonResponse(generated[1], None)

\* C10 witness: /chat answered although the index build failed.
C10_Witness ==
  /\ pc = "done" /\ endpoint = "chat" /\ ~req.strict
  /\ Len(retrCalls) = 1 /\ retrCalls[1].outcome = "build_failed"
  /\ response = JsonResponse(TxtUncited, None)

----------------------------------------------------------------------------
(* POST /rag/reindex *)

TxtToken == <<"t","k">>
TxtWrongToken == <<"n","o">>
TxtBearer == <<"B","e","a","r","e","r"," ">>
TxtBucket == <<"b">>
TxtPrefix == <<"d","o","c","s","/">>

\* values of the RAG_TOKEN environment variable (unset reads as "")
EnvTokens == {<<>>, <<" ">>, TxtToken}

\* values of the RAG_S3_BUCKET environment variable (unset reads as None)
EnvBuckets == {None, TxtBucket}

\* header values a caller may send
TokenHeaders == {None, TxtToken, TxtWrongToken}
AuthorizationHeaders ==
  {None, TxtBearer \o TxtToken, TxtBearer \o TxtWrongToken, TxtToken \o <<" ">>}

ReindexRequests ==
  {[bucket |-> b, prefix |-> p, x_rag_token |-> x, authorization |-> a] :
     b \in {None, TxtBucket}, p \in {None, TxtPrefix},
     x \in TokenHeaders, a \in AuthorizationHeaders}

\* what rebuild_from_s3(...) / get_status() may do
RebuildOutcomes == {"ok", "raises"}

RECURSIVE RemoveAll(_, _)
\* s.replace(sub, "")
RemoveAll(s, sub) ==
  IF Len(s) < Len(sub) THEN s
  ELSE IF SubSeq(s, 1, Len(sub)) = sub
         THEN RemoveAll(SubSeq(s, Len(sub) + 1, Len(s)), sub)
         ELSE <<Head(s)>> \o RemoveAll(Tail(s), sub)

\* supplied = (x_rag_token or "") or ((authorization or "").replace("Bearer ", "").strip())
Supplied(r) ==
  IF r.x_rag_token # <<>> THEN r.x_rag_token
  ELSE Strip(RemoveAll(r.authorization, TxtBearer))

\* `if RAG_TOKEN:` ... `if supplied != RAG_TOKEN:` raise 403
TokenRejected(r) == RAG_TOKEN # <<>> /\ Supplied(r) # RAG_TOKEN

\* b = bucket or RAG_S3_BUCKET
EffectiveBucket(r) == IF r.bucket # <<>> THEN r.bucket ELSE RAG_S3_BUCKET

AdminInit ==
  /\ USE_LANGCHAIN = TRUE
  /\ ChatIdle
  /\ RAG_TOKEN \in {Strip(v) : v \in EnvTokens}
  /\ RAG_S3_BUCKET \in EnvBuckets
  /\ AdminIdle
  /\ RagIdle(0)
  /\ FnIdle

\* a request arrives at POST /rag/reindex
AdminReceive(r) ==
  /\ apc = "idle"
  /\ areq' = r
  /\ apc' = "auth"
  /\ aresp' = NoAdminResponse
  /\ rebuilds' = <<>>
  /\ UNCHANGED <<chatVars, ragVars, fnVars, RAG_TOKEN, RAG_S3_BUCKET>>

\* the token check and the bucket check of rag_reindex
AdminGate ==
  /\ apc = "auth"
  /\ IF TokenRejected(areq)
       THEN /\ aresp' = [status |-> 403, error |-> "Forbidden", message |-> "invalid RAG token"]
            /\ apc' = "done"
       ELSE IF EffectiveBucket(areq) = <<>>
         THEN /\ aresp' = [status |-> 400, error |-> "BadRequest",
                           message |-> "RAG_S3_BUCKET not configured"]
              /\ apc' = "done"
         ELSE /\ apc' = "rebuild"
              /\ UNCHANGED aresp
  /\ UNCHANGED <<chatVars, ragVars, fnVars, RAG_TOKEN, RAG_S3_BUCKET, areq, rebuilds>>

\* the try block: rebuild_from_s3(AWS_REGION, b, p)
AdminRebuild(o) ==
  /\ apc = "rebuild"
  /\ rebuilds' = Append(rebuilds, EffectiveBucket(areq))
  /\ aresp' = IF o = "ok" THEN [status |-> 200, error |-> "", message |-> ""]
                          ELSE [status |-> 500, error |-> "Exception", message |-> ""]
  /\ apc' = "done"
  /\ UNCHANGED <<chatVars, ragVars, fnVars, RAG_TOKEN, RAG_S3_BUCKET, areq>>

\* the response has been delivered
AdminComplete ==
  /\ apc = "done"
  /\ apc' = "idle"
  /\ UNCHANGED <<chatVars, ragVars, fnVars, RAG_TOKEN, RAG_S3_BUCKET, areq, aresp, rebuilds>>

AdminNext ==
  \/ \E r \in ReindexRequests : AdminReceive(r)
  \/ AdminGate
  \/ \E o \in RebuildOutcomes : AdminRebuild(o)
  \/ AdminComplete

SpecAdmin == AdminInit /\ [][AdminNext]_vars

\* C11: the admin reindex fails closed: with no token configured every call
\* is rejected with a not-configured error and no rebuild is attempted; with
\* a token configured a rebuild is attempted only for a caller whose header
\* carries exactly that token.
C11_ReindexFailsClosed ==
  /\ RAG_TOKEN = <<>> =>
       /\ rebuilds = <<>>
       /\ apc \in {"idle", "auth", "done"}
       /\ (apc = "done" /\ aresp # NoAdminResponse)
            => aresp.status \in {400, 403, 503} /\ aresp.message # "invalid RAG token"
  /\ (RAG_TOKEN # <<>> /\ apc = "rebuild")
       => \/ areq.x_rag_token = RAG_TOKEN
          \/ areq.x_rag_token = None /\ areq.authorization \in
               {RAG_TOKEN, TxtBearer \o RAG_TOKEN, RAG_TOKEN \o <<" ">>}

\* ---------------------------------------------------------------------------
\* app/rag.py: get_retriever and reindex called from concurrent threads
\* ---------------------------------------------------------------------------

\* index builds that may write the store in one run
MaxBuilds == 3

\* search_kwargs={"k": 3} of as_retriever
RetrieverK == 3

\* what _iter_local_docs / _iter_s3_docs can hand to _build_vs_from_docs
DocsRaw == {0, 2}

\* generations of index.faiss an earlier process can have left behind
StoredAtStart == {0, 1}

\* FAISS.load_local: the vector store holding what index.faiss holds now
_load_faiss == [gen |-> store]

\* vs.as_retriever(search_kwargs={"k": 3}), created inside function by
as_retriever(vs, by) == [vs |-> vs, k |-> RetrieverK, by |-> by]

Returned(r) == [kind |-> "retriever", retriever |-> Some(r)]
ReturnedMeta == [kind |-> "meta", retriever |-> None]
Raised == [kind |-> "error", retriever |-> None]

\* `with _lock:` lets nobody in while the lock is held
LockAvailable_GetUnlocked(op) == op = "get_retriever" \/ lock = NoThread
LockAvailable_ReindexUnlocked(op) == op = "reindex" \/ lock = NoThread
LockAvailable(op) == lock = NoThread

\* leaving `with _lock:` by an exception releases the lock
LockAfterRaise_Held == lock
LockAfterRaise == NoThread

RagInit ==
  /\ USE_LANGCHAIN = TRUE
  /\ ChatIdle
  /\ RAG_TOKEN = <<>>
  /\ RAG_S3_BUCKET \in EnvBuckets
  /\ AdminIdle
  /\ \E s \in StoredAtStart : RagIdle(s)
  /\ FnIdle

\* a thread calls get_retriever(region) and reaches `with _lock:`
GrCall(t) ==
  /\ tpc[t] = "idle"
  /\ tpc' = [tpc EXCEPT ![t] = "gr_wait"]
  /\ tret' = [tret EXCEPT ![t] = NoReturn]
  /\ UNCHANGED <<lock, _cached_retriever, _cached_vs, store, nbuilds, published, grBuilds>>
  /\ UNCHANGED <<chatVars, adminVars, fnVars>>

GrAcquire(t) ==
  /\ tpc[t] = "gr_wait"
  /\ LockAvailable("get_retriever")
  /\ lock' = t
  /\ tpc' = [tpc EXCEPT ![t] = "gr_check"]
  /\ UNCHANGED <<_cached_retriever, _cached_vs, store, nbuilds, tret, published, grBuilds>>
  /\ UNCHANGED <<chatVars, adminVars, fnVars>>

\* if _cached_retriever is not None: return it; else load or build
GrCheck(t) ==
  /\ tpc[t] = "gr_check"
  /\ IF _cached_retriever # None
       THEN /\ tret' = [tret EXCEPT ![t] = Returned(_cached_retriever[1])]
            /\ tpc' = [tpc EXCEPT ![t] = "retrieving"]
            /\ lock' = NoThread
       ELSE /\ tpc' = [tpc EXCEPT ![t] = IF store # 0 THEN "gr_load" ELSE "gr_build"]
            /\ UNCHANGED <<tret, lock>>
  /\ UNCHANGED <<_cached_retriever, _cached_vs, store, nbuilds, published, grBuilds>>
  /\ UNCHANGED <<chatVars, adminVars, fnVars>>

\* build_index_s3 / build_index_local inside get_retriever
GrBuild(t, n) ==
  /\ tpc[t] = "gr_build"
  /\ nbuilds < MaxBuilds
  /\ IF n = 0
       THEN /\ tret' = [tret EXCEPT ![t] = Raised]
            /\ tpc' = [tpc EXCEPT ![t] = "idle"]
            /\ lock' = LockAfterRaise
            /\ UNCHANGED <<store, nbuilds, grBuilds>>
       ELSE /\ store' = nbuilds + 1
            /\ nbuilds' = nbuilds + 1
            /\ grBuilds' = grBuilds + 1
            /\ tpc' = [tpc EXCEPT ![t] = "gr_load"]
            /\ UNCHANGED <<tret, lock>>
  /\ UNCHANGED <<_cached_retriever, _cached_vs, published>>
  /\ UNCHANGED <<chatVars, adminVars, fnVars>>

\* _cached_vs = _load_faiss(emb)
GrLoad(t) ==
  /\ tpc[t] = "gr_load"
  /\ _cached_vs' = Some(_load_faiss)
  /\ tpc' = [tpc EXCEPT ![t] = "gr_set"]
  /\ UNCHANGED <<lock, _cached_retriever, store, nbuilds, tret, published, grBuilds>>
  /\ UNCHANGED <<chatVars, adminVars, fnVars>>

\* _cached_retriever = _cached_vs.as_retriever(...); return _cached_retriever
GrSet(t) ==
  /\ tpc[t] = "gr_set"
  /\ LET r == as_retriever(_cached_vs[1], "get_retriever") IN
       /\ _cached_retriever' = Some(r)
       /\ published' = published \cup {r}
       /\ tret' = [tret EXCEPT ![t] = Returned(r)]
  /\ tpc' = [tpc EXCEPT ![t] = "retrieving"]
  /\ lock' = NoThread
  /\ UNCHANGED <<_cached_vs, store, nbuilds, grBuilds>>
  /\ UNCHANGED <<chatVars, adminVars, fnVars>>

\* ret.get_relevant_documents(query) on the handle the caller was given
Retrieve(t) ==
  /\ tpc[t] = "retrieving"
  /\ tpc' = [tpc EXCEPT ![t] = "idle"]
  /\ UNCHANGED <<lock, _cached_retriever, _cached_vs, store, nbuilds, tret, published, grBuilds>>
  /\ UNCHANGED <<chatVars, adminVars, fnVars>>

\* a thread calls reindex(region) and reaches `with _lock:`
RiCall(t) ==
  /\ tpc[t] = "idle"
  /\ tpc' = [tpc EXCEPT ![t] = "ri_wait"]
  /\ tret' = [tret EXCEPT ![t] = NoReturn]
  /\ UNCHANGED <<lock, _cached_retriever, _cached_vs, store, nbuilds, published, grBuilds>>
  /\ UNCHANGED <<chatVars, adminVars, fnVars>>

RiAcquire(t) ==
  /\ tpc[t] = "ri_wait"
  /\ LockAvailable("reindex")
  /\ lock' = t
  /\ tpc' = [tpc EXCEPT ![t] = "ri_build"]
  /\ UNCHANGED <<_cached_retriever, _cached_vs, store, nbuilds, tret, published, grBuilds>>
  /\ UNCHANGED <<chatVars, adminVars, fnVars>>

\* meta = build_index_s3(region) / build_index_local(region) inside reindex
RiBuild(t, n) ==
  /\ tpc[t] = "ri_build"
  /\ nbuilds < MaxBuilds
  /\ IF n = 0
       THEN /\ tret' = [tret EXCEPT ![t] = Raised]
            /\ tpc' = [tpc EXCEPT ![t] = "idle"]
            /\ lock' = LockAfterRaise
            /\ UNCHANGED <<store, nbuilds>>
       ELSE /\ store' = nbuilds + 1
            /\ nbuilds' = nbuilds + 1
            /\ tpc' = [tpc EXCEPT ![t] = "ri_load"]
            /\ UNCHANGED <<tret, lock>>
  /\ UNCHANGED <<_cached_retriever, _cached_vs, published, grBuilds>>
  /\ UNCHANGED <<chatVars, adminVars, fnVars>>

\* _cached_vs = _load_faiss(emb)
RiLoad(t) ==
  /\ tpc[t] = "ri_load"
  /\ _cached_vs' = Some(_load_faiss)
  /\ tpc' = [tpc EXCEPT ![t] = "ri_set"]
  /\ UNCHANGED <<lock, _cached_retriever, store, nbuilds, tret, published, grBuilds>>
  /\ UNCHANGED <<chatVars, adminVars, fnVars>>

\* _cached_retriever = _cached_vs.as_retriever(...); return meta
RiSet(t) ==
  /\ tpc[t] = "ri_set"
  /\ LET r == as_retriever(_cached_vs[1], "reindex") IN
       /\ _cached_retriever' = Some(r)
       /\ published' = published \cup {r}
  /\ tret' = [tret EXCEPT ![t] = ReturnedMeta]
  /\ tpc' = [tpc EXCEPT ![t] = "idle"]
  /\ lock' = NoThread
  /\ UNCHANGED <<_cached_vs, store, nbuilds, grBuilds>>
  /\ UNCHANGED <<chatVars, adminVars, fnVars>>

RagNext ==
  \E t \in Threads :
    \/ GrCall(t)
    \/ GrAcquire(t)
    \/ GrCheck(t)
    \/ \E n \in DocsRaw : GrBuild(t, n)
    \/ GrLoad(t)
    \/ GrSet(t)
    \/ Retrieve(t)
    \/ RiCall(t)
    \/ RiAcquire(t)
    \/ \E n \in DocsRaw : RiBuild(t, n)
    \/ RiLoad(t)
    \/ RiSet(t)

SpecRag == RagInit /\ [][RagNext]_vars

\* threads inside get_retriever past the cache check
GrBuilders == {t \in Threads : tpc[t] \in {"gr_build", "gr_load", "gr_set"}}

\* handles that calls of get_retriever created
GrCreated == {r \in published : r.by = "get_retriever"}

\* C12: under concurrent callers get_retriever builds the index at most once
\* (a build that raises does not count): at most one caller at a time is past
\* the cache check, callers that arrive meanwhile wait at the lock, at most
\* one build and one handle ever come out of get_retriever, and every caller
\* of get_retriever is handed a handle that was the cached one.
C12_BuiltAtMostOnce ==
  /\ Cardinality(GrBuilders) <= 1
  /\ \A t \in Threads : tpc[t] = "gr_check" => GrBuilders = {}
  /\ grBuilds <= 1
  /\ Cardinality(GrCreated) <= 1
  /\ \A t \in Threads :
       tret[t].kind = "retriever" => tret[t].retriever[1] \in published

\* one caller built the index while another waited at the lock and was then
\* handed the handle the first one made
C12_Witness ==
  /\ grBuilds = 1
  /\ \E t, u \in Threads :
       /\ t # u
       /\ tret[t].kind = "retriever"
       /\ tret[t].retriever[1] \in GrCreated
       /\ tret[u] = tret[t]
       /\ tpc[t] = "retrieving"
       /\ tpc[u] = "retrieving"

\* the two cache globals belong together: both unset, or the cached retriever
\* is the one made from the cached vector store
CachePaired ==
  \/ _cached_retriever = None /\ _cached_vs = None
  \/ /\ _cached_retriever # None
     /\ _cached_vs # None
     /\ _cached_retriever[1].vs = _cached_vs[1]

\* a retriever over a vector store that some build wrote in full
CompleteHandle(r) == r \in published /\ r.vs.gen \in 1..nbuilds

\* C13: reindex swaps the cached handle atomically. Whenever the lock is free,
\* and whenever a get_retriever call reads the cache, the cached retriever and
\* the cached vector store are from the same build; once a handle has been
\* cached the cache is never empty again; every handle a caller was given,
\* and is still retrieving with after a later swap, is a complete handle that
\* was the cached one.
C13_ReindexSwapsAtomically ==
  /\ lock = NoThread => CachePaired
  /\ \A t \in Threads : tpc[t] = "gr_check" => CachePaired
  /\ published # {} => _cached_retriever # None /\ _cached_retriever[1] \in published
  /\ \A t \in Threads :
       tpc[t] = "retrieving" =>
         /\ tret[t].kind = "retriever"
         /\ CompleteHandle(tret[t].retriever[1])

\* a reindex replaced the handle while one caller was still retrieving with
\* the old one, and a later caller was handed the new one
C13_Witness ==
  \E t, u \in Threads :
    /\ tpc[t] = "retrieving"
    /\ tpc[u] = "retrieving"
    /\ tret[t].retriever # _cached_retriever
    /\ tret[u].retriever = _cached_retriever
    /\ _cached_retriever[1].by = "reindex"
    /\ lock = NoThread

\* ---------------------------------------------------------------------------
\* Claims about /chat and /chat/stream, continued
\* ---------------------------------------------------------------------------

\* the turn list is empty or holds no user turn with non-blank content
InvalidTurns(turns) ==
  \/ Len(turns) = 0
  \/ \A i \in 1..Len(turns) :
       turns[i].role # "user" \/ \A j \in 1..Len(turns[i].content) :
                                    turns[i].content[j] \in Whitespace

\* C14: a request whose turn list is empty, or has no user turn with
\* non-whitespace content, is answered 400 BadRequest on /chat and on
\* /chat/stream, and no retrieval, judge or generation call is made for it
\* and no stream is opened.
C14_InvalidTurnsRejectedFirst ==
  (pc # "idle" /\ InvalidTurns(req.messages)) =>
    /\ pc \in {"received", "done"}
    /\ pc = "done" => response = HttpError(400, "BadRequest")
    /\ retrCalls = <<>>
    /\ judgeCalls = <<>>
    /\ genCalls = <<>>
    /\ events = <<>>

\* a strict rag request on /chat/stream whose only user turn is blank has
\* been rejected
C14_Witness ==
  /\ pc = "done"
  /\ endpoint = "stream"
  /\ req.rag
  /\ req.messages = <<Turn("user", TxtBlank)>>
  /\ response.status = 400

\* ---------------------------------------------------------------------------
\* _judge_supported and _expand_query_for_med applied on their own
\* ---------------------------------------------------------------------------

\* nested applications of _expand_query_for_med in one run
MaxApply == 3

QPaForm == <<"P","A"," ","f","o","r","m">>
QCompany == <<"c","o","m","p","a","n","y"," ","p","l","a","n">>
QWeight == <<"W","e","i","g","h","t"," ","l","o","s","s">>

ExpandInputs ==
  {<<>>, TxtBlank, TxtHi, TxtBrief, QStop, QCgm, QSeven, QPaForm, QCompany, QWeight}

\* contexts _collect_docs_and_context hands to _judge_supported
JudgeContexts ==
  {_collect_docs_and_context(o, k).context : o \in RetrievalOutcomes, k \in {1, 3, DefaultK}}

FnInit ==
  /\ USE_LANGCHAIN = TRUE
  /\ ChatIdle
  /\ RAG_TOKEN = <<>>
  /\ RAG_S3_BUCKET = <<>>
  /\ AdminIdle
  /\ RagIdle(0)
  /\ arg_q \in ExpandInputs
  /\ ret_expand = arg_q
  /\ napply = 0
  /\ arg_question \in {QCgm, QStop}
  /\ arg_context_blocks \in JudgeContexts
  /\ reply = "none"
  /\ ret_judge = None

\* _expand_query_for_med applied to what the last application returned
ExpandApply ==
  /\ napply < MaxApply
  /\ ret_expand' = _expand_query_for_med(ret_expand)
  /\ napply' = napply + 1
  /\ UNCHANGED <<arg_q, arg_question, arg_context_blocks, reply, ret_judge>>
  /\ UNCHANGED <<chatVars, adminVars, ragVars>>

\* _judge_supported(question, context_blocks), the judge model replying o
JudgeApply(o) ==
  /\ ret_judge = None
  /\ reply' = IF JudgeCallsModel(arg_context_blocks) THEN o ELSE "not_called"
  /\ ret_judge' = Some(_judge_supported(arg_context_blocks, o))
  /\ UNCHANGED <<arg_q, ret_expand, napply, arg_question, arg_context_blocks>>
  /\ UNCHANGED <<chatVars, adminVars, ragVars>>

FnNext ==
  \/ ExpandApply
  \/ \E o \in JudgeOutcomes : JudgeApply(o)

SpecFn == FnInit /\ [][FnNext]_vars

\* C15: for a non-empty context, a judge model call that raises, or a reply
\* that is not usable JSON, gives the verdict supported=true and
\* _judge_supported returns normally; the verdict unsupported comes only from
\* a call that succeeded with a JSON object not saying supported=true.
C15_JudgeFailureBiasesToSupported ==
  (ret_judge # None /\ arg_context_blocks # <<>>) =>
    /\ reply \in {"call_failed", "not_json", "not_object"} => ret_judge = Some(TRUE)
    /\ ret_judge = Some(FALSE) => reply \in {"supported_false", "supported_other"}
    /\ ret_judge \in {Some(TRUE), Some(FALSE)}

\* the judge model call failed on a context of two chunks and the verdict
\* came back supported
C15_Witness ==
  /\ reply = "call_failed"
  /\ ret_judge = Some(TRUE)
  /\ arg_context_blocks =
       _collect_docs_and_context([kind |-> "ok", docs |-> <<DocAppeal, DocCgm>>], 3).context

\* the substrings _expand_query_for_med looks for
Triggers ==
  {TrigPa, TrigPriorAuth, TrigAuthorization, TrigCgm, TrigAppeal, TrigGriev,
   TrigGlp, TrigWeight, TrigSemag}

\* q holds none of the triggers, whatever the case of its letters
TriggerFree(q) ==
  \A t \in Triggers :
    \A i \in 1..Len(q) :
      i + Len(t) - 1 <= Len(q) =>
        \E j \in 1..Len(t) : LowerChar(q[i + j - 1]) # t[j]

\* C17: _expand_query_for_med returns a query that holds none of its trigger
\* substrings, in any letter case, unchanged, so any number of nested
\* applications to such a query gives back the identical string.
C17_ExpandFixesTriggerFreeQueries ==
  TriggerFree(arg_q) => ret_expand = arg_q

\* a trigger-free query came back unchanged from nested applications
C17_Witness ==
  /\ arg_q = QStop
  /\ TriggerFree(arg_q)
  /\ napply >= 2
  /\ ret_expand = QStop

\* "[i] text" for the chunk at 1-based position i
NumberedBlock(d, i) == <<"[", DigitChars[i + 1], "]", " ">> \o Strip(d.page_content)

Label(d, i) ==
  LET has(key) == key \in DOMAIN d.metadata /\ Len(d.metadata[key]) > 0
  IN  IF has("section") THEN d.metadata["section"]
      ELSE IF has("title") THEN d.metadata["title"]
      ELSE IF has("heading") THEN d.metadata["heading"]
      ELSE IF has("source") THEN d.metadata["source"]
      ELSE <<"S","e","c","t","i","o","n"," ">> \o <<DigitChars[i + 1]>>

LabelledBlock(d, i) == <<"[">> \o Label(d, i) \o <<"]", "\n">> \o Strip(d.page_content)

RECURSIVE BlockStart(_, _)
\* where the block of chunk i starts when blocks are two newlines apart
BlockStart(ds, i) ==
  IF i = 1 THEN 1
  ELSE BlockStart(ds, i - 1) + Len(LabelledBlock(ds[i - 1], i - 1)) + 2

\* the context texts a generation call carries in its system prompt
PromptContexts(call) ==
  {call.system[j].text : j \in DOMAIN call.system}
    \cup {call.messages[j].content.text :
            j \in {n \in DOMAIN call.messages : call.messages[n].content.tmpl # ""}}

JudgeModelCalls == {n \in DOMAIN judgeCalls : judgeCalls[n].model_called}

\* C18: within one request the grounding judge is invoked at most once, on
\* /chat and on /chat/stream, strict or not.
C18_JudgeInvokedAtMostOnce ==
  /\ Len(judgeCalls) <= 1
  /\ Cardinality(JudgeModelCalls) <= 1

\* C19: a valid rag request whose last user turn is empty makes no retrieval
\* and no judge call and goes straight to generation with no context prompt,
\* strict or not, on /chat and on /chat/stream.
C19_EmptyLastTurnSkipsToGeneration ==
  (pc # "idle" /\ ValidTurns(req.messages) /\ req.rag /\ LastUser(req.messages) = <<>>) =>
    /\ retrCalls = <<>>
    /\ JudgeModelCalls = {}
    /\ pc \notin {"judge", "bail"}
    /\ pc = "done" =>
         /\ Len(genCalls) = 1
         /\ NoContextPrompt(genCalls[1])

\* the judge was asked and said supported, on a non-empty context
SupportedWithContext ==
  /\ context_text # <<>>
  /\ judgeCalls # <<>>
  /\ judgeCalls[Len(judgeCalls)].verdict

\* the caller has been shown the sources
SourcesSurfaced ==
  IF endpoint = "chat" THEN response.sources # None
  ELSE \E n \in DOMAIN events : events[n].type = "sources"

\* C20: in a non-strict rag request the verdict never stops generation: no
\* refusal path is taken and a finished request has called generation once,
\* whichever verdict the judge gave; the verdict only decides the sources,
\* which an answered /chat request returns, and a /chat/stream request
\* emits, exactly when the context is non-empty and the verdict is supported.
C20_NonStrictVerdictOnlyGatesSources ==
  (pc # "idle" /\ ValidTurns(req.messages) /\ req.rag /\ ~req.strict) =>
    /\ pc \notin {"bail", "gen_judge"}
    /\ Len(judgeCalls) <= 1
    /\ pc = "done" => Len(genCalls) = 1 /\ ~Refused
    /\ (endpoint = "chat" /\ response.kind = "json") =>
         /\ SourcesSurfaced <=> SupportedWithContext
         /\ SourcesSurfaced => response.sources = Some(sources)
    /\ (endpoint = "chat" /\ response.kind # "json") => ~SourcesSurfaced
    /\ (endpoint = "stream" /\ pc \in {"gen_invoke", "streaming", "done"}) =>
         /\ SourcesSurfaced <=> SupportedWithContext
         /\ SourcesSurfaced => events[1] = EvSources(sources)

\* a non-strict rag stream whose judge said unsupported still called the
\* model, streamed its answer and showed no sources
C20_Witness ==
  /\ endpoint = "stream"
  /\ req.rag
  /\ ~req.strict
  /\ pc = "done"
  /\ context_text # <<>>
  /\ judgeCalls = <<[model_called |-> TRUE, verdict |-> FALSE]>>
  /\ Len(genCalls) = 1
  /\ generated # <<>>
  /\ ~SourcesSurfaced

\* get_retriever raised because there was no index and nothing to build from
BuildFailed == retrCalls # <<>> /\ retrCalls[1].outcome = "build_failed"

\* the caller was told of an error
ErrorSurfaced ==
  \/ response.kind = "http_error"
  \/ \E n \in DOMAIN events : events[n].type = "error"

\* C21: when no index exists and no documents are found, the build failure
\* reaches the caller of retrieval as an error: the request does not end in
\* the refusal that an empty retrieval gives, and a finished request has
\* reported an error.
C21_BuildFailureSurfaced ==
  BuildFailed =>
    /\ ~Refused
    /\ pc = "done" => ErrorSurfaced

\* threads inside reindex's `with _lock:` block
Reindexing == {u \in Threads : tpc[u] \in {"ri_build", "ri_load", "ri_set"}}

\* C22: once a handle is cached, a get_retriever call does not take the
\* build mutex: it never waits at the lock while a reindex holds it, and it
\* never holds the lock itself when it reads the cached handle.
C22_CachedReadsLockFree ==
  \A t \in Threads :
    _cached_retriever # None =>
      /\ tpc[t] = "gr_wait" => ~(\E u \in Reindexing : lock = u)
      /\ tpc[t] = "gr_check" => lock # t

\* /chat/stream ended in the refusal and generation was never called
StreamRefusedWithoutGeneration ==
  /\ genCalls = <<>>
  /\ SelectSeq(events, IsDelta) = <<EvDelta(NotInPolicy)>>
  /\ events[Len(events)] = EvDone

\* what /chat does with the same request, the same chunks and the verdict
\* of the first judge call: it refuses
ChatWouldRefuse ==
  /\ RagEntered
  /\ req.strict
  /\ judgeCalls # <<>>
  /\ StrictRefuses(judgeCalls[1].verdict, user_last, sources)

\* C23: /chat/stream ends in the "Not in policy." refusal without invoking
\* generation exactly when /chat would return the refusal for the same
\* request, the same retrieved chunks and the first judge verdict.
C23_StreamGateMatchesChatGate ==
  (endpoint = "stream" /\ pc = "done" /\ response.kind = "stream") =>
    (StreamRefusedWithoutGeneration <=> ChatWouldRefuse)

\* thread t's build raised in this step: no documents were found
BuildRaises(t) ==
  /\ tpc[t] \in {"gr_build", "ri_build"}
  /\ tpc'[t] = "idle"
  /\ tret'[t] = Raised

\* C24: a reindex, or a first build inside get_retriever, that finds no
\* documents leaves the cached retriever, the cached vector store and the
\* stored index as they were and releases the lock; a get_retriever call that
\* then reads the cache returns the handle cached before, or goes on to build
\* or load when none is cached.
C24_FailedBuildLeavesCache ==
  [][\A t \in Threads :
       /\ BuildRaises(t) =>
            /\ _cached_retriever' = _cached_retriever
            /\ _cached_vs' = _cached_vs
            /\ store' = store
            /\ published' = published
            /\ lock' = NoThread
       /\ (tpc[t] = "gr_check" /\ tpc'[t] # "gr_check") =>
            IF _cached_retriever # None
              THEN /\ tret'[t] = Returned(_cached_retriever[1])
                   /\ lock' = NoThread
              ELSE /\ tpc'[t] \in {"gr_build", "gr_load"}
                   /\ lock' = t]_vars

\* one caller's build raised, the lock is free again, and another caller was
\* then handed the cached handle
C24_Witness ==
  \E t, u \in Threads :
    /\ t # u
    /\ tret[t] = Raised
    /\ tpc[t] = "idle"
    /\ lock = NoThread
    /\ _cached_retriever # None
    /\ tret[u] = Returned(_cached_retriever[1])
    /\ tpc[u] = "retrieving"

====
